---------------------------- MODULE Spec2Model ----------------------------
(***************************************************************************)
(* Model of the IdleTimer class (src/unnamed/part_000; the older variant   *)
(* is src/index.js) together with the parts of the host environment it     *)
(* uses: the clock, setTimeout/clearTimeout, the listener table of         *)
(* addEventListener/removeEventListener, dispatchEvent and localStorage.   *)
(*                                                                         *)
(* Time is counted in ticks of 100 ms.                                     *)
(***************************************************************************)
EXTENDS Integers, Sequences, FiniteSets, TLC

(* ------------------------------ bounds --------------------------------- *)

\* the clock stops advancing here
MaxTime == 6

\* the configured timeout option, in ticks
Timeout == 3

\* the 200 ms below which a mousemove after a transition is a false alarm,
\* in ticks of 100 ms
FalseAlarmTicks == 2

(* ---------------------------- JS values -------------------------------- *)

Null == <<"null">>
Undefined == <<"undefined">>
Num(n) == <<"number", n>>
Str(x) == <<"string", x>>

\* truthiness of a value that is null or a non-empty string / non-zero number
Truthy(v) == v # Null /\ v # Undefined

(* --------------------------- program state ----------------------------- *)

VARIABLES
    now,              \* Utils.now(), in ticks
    initially_idle,   \* constructor option
    timeout,          \* constructor option
    storage_key,      \* constructor option
    idle,             \* this.idle
    last_toggled_at,  \* this.last_toggled_at
    last_activity_at, \* this.last_activity_at
    remaining,        \* this.remaining (Null when not paused)
    timeout_id,       \* this.timeout_id
    pageX,            \* this.pageX
    pageY,            \* this.pageY
    timers,           \* host: callbacks scheduled by setTimeout, [id, at]
    listeners,        \* host: registered <<event type, handler closure>> pairs
    op,               \* the step that produced this state, with its input
    emitted,          \* custom events dispatched by that step
    wrote,            \* host: localStorage.setItem calls made by that step
    hLast,            \* history: the last step that was neither a clock tick, an
                      \*          ignored signal nor a call without effect
    hExpected,        \* history: the instants at which a callback is due to run,
                      \*          counted from the configured timeout
    quiet,            \* history: no signal and no API call since construction
    hQuietEmitted,    \* history: custom events dispatched while quiet
    destroyed,        \* history: destroy() has returned
    hInactive,        \* history: unpaused ticks since the last accepted signal
    hPauseElapsed,    \* history: get_elapsed_time() at the last effective pause()
    hAnnounced,       \* history: what the last notification announced, if any
    hSinceReset,      \* history: the same, forgotten at construction and reset()
    ctx,              \* two browsing contexts: the timer and host state of each
    channel,          \* the value localStorage holds under the timers' key
    inbox,            \* storage notifications the host has yet to deliver
    syncOp            \* the step of a context that produced this state

objVars == <<initially_idle, timeout, storage_key, idle, last_toggled_at,
             last_activity_at, remaining, timeout_id, pageX, pageY>>
hostVars == <<timers, listeners>>
histVars == <<op, emitted, wrote, hLast, hExpected, quiet, hQuietEmitted,
              destroyed, hInactive, hPauseElapsed, hAnnounced, hSinceReset>>
syncVars == <<ctx, channel, inbox, syncOp>>
vars == <<now, objVars, hostVars, histVars, syncVars>>

(* ------------------------------ events --------------------------------- *)

\* default value of the events option
DefaultEvents == {"mousemove", "keydown", "wheel", "DOMMouseScroll",
                  "mousewheel", "mousedown"}

\* sample pointer positions: the second differs from the first in pageY only
Points == {<<Num(10), Num(10)>>, <<Num(10), Num(20)>>}

Event(ty, x, y, k) == [type |-> ty, pageX |-> x, pageY |-> y, key |-> k]

NoEvent == Event("null", Undefined, Undefined, Undefined)

\* the events the host can raise: pointer events carry coordinates (a
\* malformed mousemove lacks them), keyboard and storage events have no
\* pageX/pageY, a storage event names the key that changed
Events ==
    {Event("mousemove", p[1], p[2], Undefined) : p \in Points}
    \cup {Event("mousemove", Undefined, Undefined, Undefined)}
    \cup {Event("mousedown", Num(10), Num(10), Undefined)}
    \cup {Event("keydown", Undefined, Undefined, Undefined)}
    \cup {Event("storage", Undefined, Undefined, Str(k)) : k \in {"idle", "other"}}

(* ------------------- the timer object and its host ---------------------- *)

\* the object's fields and the host state one handler runs on; emitted and
\* wrote start empty and collect the handler's effects
World ==
    [now |-> now, initially_idle |-> initially_idle, timeout |-> timeout,
     storage_key |-> storage_key, idle |-> idle,
     last_toggled_at |-> last_toggled_at, last_activity_at |-> last_activity_at,
     remaining |-> remaining, timeout_id |-> timeout_id,
     pageX |-> pageX, pageY |-> pageY,
     timers |-> timers, listeners |-> listeners,
     emitted |-> <<>>, wrote |-> <<>>]

Commit(w) ==
    /\ idle' = w.idle
    /\ last_toggled_at' = w.last_toggled_at
    /\ last_activity_at' = w.last_activity_at
    /\ remaining' = w.remaining
    /\ timeout_id' = w.timeout_id
    /\ pageX' = w.pageX
    /\ pageY' = w.pageY
    /\ timers' = w.timers
    /\ listeners' = w.listeners
    /\ emitted' = w.emitted
    /\ wrote' = w.wrote
    /\ UNCHANGED <<initially_idle, timeout, storage_key>>

is_idle(w) == w.idle

\* variant: tests this.remaining for truthiness, so that a cached 0 is not paused
is_paused_truthy(w) == Truthy(w.remaining) /\ w.remaining # Num(0)

is_paused(w) == w.remaining # Null /\ w.remaining # Undefined

get_elapsed_time(w) == w.now - w.last_toggled_at

get_last_active_time(w) == w.last_activity_at

get_remaining_time(w) ==
    IF is_idle(w) THEN 0
    ELSE IF is_paused(w) THEN w.remaining[2]
    ELSE LET r == w.timeout - (w.now - get_last_active_time(w))
         IN  IF r > 0 THEN r ELSE 0

\* setTimeout: a handle the program does not hold any more may be reused,
\* the one it holds is not
FreshId(w) ==
    CHOOSE i \in 1..(Cardinality(w.timers) + 2) :
        /\ \A tm \in w.timers : tm.id # i
        /\ w.timeout_id # Num(i)

setTimeout(w, delay) ==
    [id |-> FreshId(w), at |-> w.now + (IF delay < 0 THEN 0 ELSE delay)]

clearTimeout(w, id) == {tm \in w.timers : Num(tm.id) # id}

(* ----------------------------- IdleTimer -------------------------------- *)

\* the two arrow functions: each evaluation creates a distinct closure
InstallHandler == "handler created by __install_handlers"
UninstallHandler == "handler created by __uninstall_handlers"

install_handlers(w) ==
    LET w1 == [w EXCEPT !.listeners =
                    @ \cup {<<item, InstallHandler>> : item \in DefaultEvents}]
    IN  IF Truthy(w1.storage_key)
        THEN [w1 EXCEPT !.listeners = @ \cup {<<"storage", InstallHandler>>}]
        ELSE w1

\* removeEventListener removes the pair <<type, listener>> and nothing else
uninstall_handlers(w) ==
    LET w1 == [w EXCEPT !.listeners =
                    @ \ {<<item, UninstallHandler>> : item \in DefaultEvents}]
    IN  IF Truthy(w1.storage_key)
        THEN [w1 EXCEPT !.listeners = @ \ {<<"storage", UninstallHandler>>}]
        ELSE w1

\* variant: does not store the time of the toggle
toggle_idle_untimed(w, event) ==
    LET flipped == ~is_idle(w)
    IN  [w EXCEPT !.idle = flipped,
                  !.emitted = Append(@,
                      [name |-> IF flipped THEN "idle-timer:idle"
                                           ELSE "idle-timer:active",
                       timer |-> [idle |-> flipped],
                       event |-> event])]

\* variant: changes the state without telling the observers
toggle_idle_silent(w, event) ==
    [w EXCEPT !.idle = ~is_idle(w), !.last_toggled_at = w.now]

toggle_idle(w, event) ==
    LET flipped == ~is_idle(w)
    IN  [w EXCEPT !.idle = flipped,
                  !.last_toggled_at = w.now,
                  !.emitted = Append(@,
                      [name |-> IF flipped THEN "idle-timer:idle"
                                           ELSE "idle-timer:active",
                       timer |-> [idle |-> flipped],
                       event |-> event])]

\* variant: schedules the callback one tick late
start_late(w, duration) ==
    LET d == IF duration = Null THEN w.timeout ELSE duration[2]
        tm == setTimeout(w, d + 1)
    IN  [w EXCEPT !.timers = @ \cup {tm}, !.timeout_id = Num(tm.id)]

start(w, duration) ==
    LET d == IF duration = Null THEN w.timeout ELSE duration[2]
        tm == setTimeout(w, d)
    IN  [w EXCEPT !.timers = @ \cup {tm}, !.timeout_id = Num(tm.id)]

\* variant: forgets the handle without cancelling the callback
clear_forgets(w) == [w EXCEPT !.timeout_id = Null]

clear(w) ==
    IF Truthy(w.timeout_id)
    THEN [w EXCEPT !.timers = clearTimeout(w, w.timeout_id), !.timeout_id = Null]
    ELSE w

\* variant: toggles the state instead of restoring the initial one
reset_toggles(w) ==
    LET w1 == [w EXCEPT !.idle = ~is_idle(w),
                        !.last_activity_at = w.now,
                        !.last_toggled_at = w.now,
                        !.remaining = Null]
        w2 == clear(w1)
    IN  IF ~is_idle(w2) THEN start(w2, Null) ELSE w2

reset(w) ==
    LET w1 == [w EXCEPT !.idle = w.initially_idle,
                        !.last_activity_at = w.now,
                        !.last_toggled_at = w.now,
                        !.remaining = Null]
        w2 == clear(w1)
    IN  IF ~is_idle(w2) THEN start(w2, Null) ELSE w2

destroy(w) == uninstall_handlers(clear(w))

\* variant: recomputes the cached remaining time on every call
pause_always(w) ==
    clear([w EXCEPT !.remaining = Num(w.timeout - get_elapsed_time(w))])

\* variant: caches the remainder but leaves the callback scheduled
pause_keeps_timer(w) ==
    IF ~is_paused(w)
    THEN [w EXCEPT !.remaining = Num(w.timeout - get_elapsed_time(w))]
    ELSE w

pause(w) ==
    IF ~is_paused(w)
    THEN clear([w EXCEPT !.remaining = Num(w.timeout - get_elapsed_time(w))])
    ELSE w

\* variant: restarts the full timeout
resume_full(w) ==
    IF is_paused(w)
    THEN LET w1 == IF ~is_idle(w) THEN start(w, Null) ELSE w
         IN  [w1 EXCEPT !.remaining = Null]
    ELSE w

\* variant: leaves the paused state without scheduling the remainder
resume_forgets(w) ==
    IF is_paused(w) THEN [w EXCEPT !.remaining = Null] ELSE w

\* variant: schedules the remainder whatever the state
resume_when_idle(w) ==
    IF is_paused(w)
    THEN [start(w, w.remaining) EXCEPT !.remaining = Null]
    ELSE w

resume(w) ==
    IF is_paused(w)
    THEN LET w1 == IF ~is_idle(w) THEN start(w, w.remaining) ELSE w
         IN  [w1 EXCEPT !.remaining = Null]
    ELSE w

\* variant: the mousemove filter without the comparison of coordinates
false_alarm_no_coords(w, event) ==
    \/ event.pageX = Undefined /\ event.pageY = Undefined
    \/ get_elapsed_time(w) < FalseAlarmTicks

\* variant: the window of the mousemove filter includes its end
false_alarm_inclusive(w, event) ==
    \/ event.pageX = w.pageX /\ event.pageY = w.pageY
    \/ event.pageX = Undefined /\ event.pageY = Undefined
    \/ get_elapsed_time(w) <= FalseAlarmTicks

\* the mousemove filter
false_alarm(w, event) ==
    \/ event.pageX = w.pageX /\ event.pageY = w.pageY
    \/ event.pageX = Undefined /\ event.pageY = Undefined
    \/ get_elapsed_time(w) < FalseAlarmTicks

\* the early returns of __handle_event
ignores(w, event) ==
    \/ is_paused(w)
    \/ event.type = "storage" /\ event.key # w.storage_key
    \/ event.type = "mousemove" /\ false_alarm(w, event)

\* variant: publishes the activity time for storage events as well
sync_echoes(w, event) ==
    IF Truthy(w.storage_key)
    THEN [w EXCEPT !.wrote = Append(@, [key |-> w.storage_key,
                                        value |-> get_last_active_time(w)])]
    ELSE w

sync(w, event) ==
    IF event.type # "storage" /\ Truthy(w.storage_key)
    THEN [w EXCEPT !.wrote = Append(@, [key |-> w.storage_key,
                                        value |-> get_last_active_time(w)])]
    ELSE w

\* variant: does not leave the idle state on activity
handle_event_no_reactivate(w, event) ==
    IF ignores(w, event) THEN w
    ELSE LET w1 == clear(w)
             w3 == [w1 EXCEPT !.last_activity_at = w.now,
                              !.pageX = event.pageX,
                              !.pageY = event.pageY]
             w4 == sync(w3, event)
         IN  start(w4, Null)

\* variant: reactivates without handing the event to __toggle_idle
handle_event_drops_event(w, event) ==
    IF ignores(w, event) THEN w
    ELSE LET w1 == clear(w)
             w2 == IF is_idle(w1) THEN toggle_idle(w1, NoEvent) ELSE w1
             w3 == [w2 EXCEPT !.last_activity_at = w.now,
                              !.pageX = event.pageX,
                              !.pageY = event.pageY]
             w4 == sync(w3, event)
         IN  start(w4, Null)

handle_event(w, event) ==
    IF ignores(w, event) THEN w
    ELSE LET w1 == clear(w)
             w2 == IF is_idle(w1) THEN toggle_idle(w1, event) ELSE w1
             w3 == [w2 EXCEPT !.last_activity_at = w.now,
                              !.pageX = event.pageX,
                              !.pageY = event.pageY]
             w4 == sync(w3, event)
         IN  start(w4, Null)

constructor(t0, ii, to, sk) ==
    LET w0 == [now |-> t0, initially_idle |-> ii, timeout |-> to,
               storage_key |-> sk, idle |-> ii,
               last_toggled_at |-> t0, last_activity_at |-> t0,
               remaining |-> Null, timeout_id |-> Null,
               pageX |-> Null, pageY |-> Null,
               timers |-> {}, listeners |-> {},
               emitted |-> <<>>, wrote |-> <<>>]
    IN  reset(install_handlers(w0))

(* ------------------------------ steps ---------------------------------- *)

\* a step as observed from outside: its kind, its input and, for a signal,
\* whether __handle_event got past its early returns
Step(kind, event, accepted) ==
    [kind |-> kind, event |-> event, accepted |-> accepted]

\* the kind of an effective step and, for a callback or a reset, the kind of
\* the effective step before it
Last(kind) ==
    [kind |-> kind,
     before |-> IF kind \in {"fire", "reset"} THEN hLast.kind ELSE "none"]

Min(a, b) == IF a < b THEN a ELSE b

\* what an observer knows after the notifications of a step
Announce(known, notes) ==
    IF notes = <<>> THEN known
    ELSE IF notes[Len(notes)].name = "idle-timer:idle" THEN "idle" ELSE "active"

InitTimer(ii, sk) ==
        LET w == constructor(0, ii, Timeout, sk)
        IN  /\ now = 0
            /\ initially_idle = ii
            /\ timeout = Timeout
            /\ storage_key = sk
            /\ idle = w.idle
            /\ last_toggled_at = w.last_toggled_at
            /\ last_activity_at = w.last_activity_at
            /\ remaining = w.remaining
            /\ timeout_id = w.timeout_id
            /\ pageX = w.pageX
            /\ pageY = w.pageY
            /\ timers = w.timers
            /\ listeners = w.listeners
            /\ emitted = w.emitted
            /\ wrote = w.wrote
            /\ op = Step("construct", NoEvent, TRUE)
            /\ hLast = [kind |-> "construct", before |-> "none"]
            /\ hExpected = IF ii THEN {} ELSE {Timeout}
            /\ quiet = TRUE
            /\ hQuietEmitted = 0
            /\ destroyed = FALSE
            /\ hInactive = 0
            /\ hPauseElapsed = 0
            /\ hAnnounced = "none"
            /\ hSinceReset = "none"

\* one timer in one context: the two-context state is not used
NoSync ==
    /\ ctx = <<>>
    /\ channel = Null
    /\ inbox = <<>>
    /\ syncOp = Step("none", NoEvent, TRUE)

Init ==
    \E ii \in BOOLEAN, sk \in {Null, Str("idle")} : InitTimer(ii, sk) /\ NoSync

\* the clock advances; a due callback runs before the clock passes it
Tick ==
    /\ now < MaxTime
    /\ \A tm \in timers : tm.at > now
    /\ now' = now + 1
    /\ op' = Step("tick", NoEvent, TRUE)
    /\ emitted' = <<>>
    /\ wrote' = <<>>
    /\ hInactive' = IF is_paused(World) THEN hInactive
                    ELSE Min(hInactive + 1, timeout)
    /\ UNCHANGED <<objVars, hostVars, hLast, hExpected, quiet, hQuietEmitted,
                   destroyed, hPauseElapsed, hAnnounced, hSinceReset, syncVars>>

\* the host raises an event a listener is registered for
Signal ==
    \E event \in Events :
        /\ \E l \in listeners : l[1] = event.type
        /\ Commit(handle_event(World, event))
        /\ op' = Step("signal", event, ~ignores(World, event))
        /\ IF ignores(World, event)
           THEN UNCHANGED <<hLast, hExpected, hInactive>>
           ELSE /\ hLast' = Last(IF idle THEN "signal when idle"
                                      ELSE "signal when active")
                /\ hExpected' = {now + timeout}
                /\ hInactive' = 0
        /\ quiet' = FALSE
        /\ hQuietEmitted' = 0
        /\ hAnnounced' = Announce(hAnnounced, emitted')
        /\ hSinceReset' = Announce(hSinceReset, emitted')
        /\ UNCHANGED <<now, destroyed, hPauseElapsed, syncVars>>

\* a callback scheduled by __start runs
Fire ==
    \E tm \in timers :
        /\ tm.at <= now
        /\ Commit(toggle_idle([World EXCEPT !.timers = @ \ {tm}], NoEvent))
        /\ op' = Step("fire", NoEvent, TRUE)
        /\ hLast' = Last("fire")
        /\ hExpected' = {}
        /\ hQuietEmitted' = IF quiet THEN hQuietEmitted + 1 ELSE 0
        /\ hAnnounced' = Announce(hAnnounced, emitted')
        /\ hSinceReset' = Announce(hSinceReset, emitted')
        /\ UNCHANGED <<now, quiet, destroyed, hInactive, hPauseElapsed, syncVars>>

\* the owner calls the methods of a timer it has not destroyed
Reset ==
    /\ ~destroyed
    /\ Commit(reset(World))
    /\ op' = Step("reset", NoEvent, TRUE)
    /\ hLast' = Last("reset")
    /\ hExpected' = IF initially_idle THEN {} ELSE {now + timeout}
    /\ hInactive' = 0
    /\ hPauseElapsed' = 0
    /\ quiet' = FALSE
    /\ hQuietEmitted' = 0
    /\ hAnnounced' = Announce(hAnnounced, emitted')
    /\ hSinceReset' = Announce("none", emitted')
    /\ UNCHANGED <<now, destroyed, syncVars>>

Pause ==
    /\ ~destroyed
    /\ Commit(pause(World))
    /\ op' = Step("pause", NoEvent, TRUE)
    /\ IF is_paused(World)
       THEN UNCHANGED <<hLast, hExpected, hPauseElapsed>>
       ELSE /\ hLast' = Last("pause")
            /\ hExpected' = {}
            /\ hPauseElapsed' = now - last_toggled_at
    /\ quiet' = FALSE
    /\ hQuietEmitted' = 0
    /\ hAnnounced' = Announce(hAnnounced, emitted')
    /\ hSinceReset' = Announce(hSinceReset, emitted')
    /\ UNCHANGED <<now, destroyed, hInactive, syncVars>>

Resume ==
    /\ ~destroyed
    /\ Commit(resume(World))
    /\ op' = Step("resume", NoEvent, TRUE)
    /\ IF is_paused(World)
       THEN /\ hLast' = Last(IF idle THEN "resume when idle"
                          ELSE IF hPauseElapsed < timeout
                               THEN "resume when active"
                               ELSE "resume when overdue")
            /\ hExpected' = IF ~idle /\ hPauseElapsed < timeout
                            THEN {now + (timeout - hPauseElapsed)} ELSE {}
            /\ hPauseElapsed' = 0
       ELSE UNCHANGED <<hLast, hExpected, hPauseElapsed>>
    /\ quiet' = FALSE
    /\ hQuietEmitted' = 0
    /\ hAnnounced' = Announce(hAnnounced, emitted')
    /\ hSinceReset' = Announce(hSinceReset, emitted')
    /\ UNCHANGED <<now, destroyed, hInactive, syncVars>>

Destroy ==
    /\ ~destroyed
    /\ Commit(destroy(World))
    /\ op' = Step("destroy", NoEvent, TRUE)
    /\ hLast' = Last("destroy")
    /\ hExpected' = {}
    /\ quiet' = FALSE
    /\ hQuietEmitted' = 0
    /\ destroyed' = TRUE
    /\ hAnnounced' = Announce(hAnnounced, emitted')
    /\ hSinceReset' = Announce(hSinceReset, emitted')
    /\ UNCHANGED <<now, hInactive, hPauseElapsed, syncVars>>

Next == Tick \/ Signal \/ Fire \/ Reset \/ Pause \/ Resume \/ Destroy

Spec == Init /\ [][Next]_vars

-----------------------------------------------------------------------------
\* Two timers with the same storage key in two browsing contexts of one
\* origin.  localStorage is shared; the host tells every OTHER context of a
\* write that changed the stored value, in a task of its own that runs before
\* the clock moves on.

Contexts == {"A", "B"}
SyncKey == Str("idle")
LocalEvents ==
    {Event("keydown", Undefined, Undefined, Undefined),
     Event("mousemove", Num(10), Num(10), Undefined)}
StorageEvent(k) == Event("storage", Undefined, Undefined, k)

Stored(w) == [w EXCEPT !.now = 0, !.emitted = <<>>, !.wrote = <<>>]
In(c) == [ctx[c] EXCEPT !.now = now]

SyncStep(c, kind, event, accepted, w) ==
    [ctx |-> c, kind |-> kind, event |-> event, accepted |-> accepted,
     emitted |-> w.emitted, wrote |-> w.wrote]

\* the host's part of a step of context c that ended in w: the writes reach
\* localStorage, and a write that changed the value is notified to the others
Host(c, w, delivered) ==
    LET value == IF w.wrote = <<>> THEN channel
                 ELSE Num(w.wrote[Len(w.wrote)].value)
    IN  /\ ctx' = [ctx EXCEPT ![c] = Stored(w)]
        /\ channel' = value
        /\ inbox' = [d \in Contexts |->
                        IF d = c THEN inbox[d] \ delivered
                        ELSE IF value # channel
                             THEN inbox[d] \cup {<<w.wrote[Len(w.wrote)].key, value>>}
                             ELSE inbox[d]]

SyncInit ==
    /\ InitTimer(FALSE, Null)
    /\ \E ii \in [Contexts -> BOOLEAN] :
           ctx = [c \in Contexts |-> Stored(constructor(0, ii[c], Timeout, SyncKey))]
    /\ channel = Null
    /\ inbox = [c \in Contexts |-> {}]
    /\ syncOp = SyncStep("A", "construct", NoEvent, TRUE, [emitted |-> <<>>, wrote |-> <<>>])

SyncTick ==
    /\ now < MaxTime
    /\ \A c \in Contexts : \A tm \in ctx[c].timers : tm.at > now
    /\ \A c \in Contexts : inbox[c] = {}
    /\ now' = now + 1
    /\ syncOp' = SyncStep("A", "tick", NoEvent, TRUE, [emitted |-> <<>>, wrote |-> <<>>])
    /\ UNCHANGED <<ctx, channel, inbox, objVars, hostVars, histVars>>

\* the user acts in one context
SyncSignal ==
    \E c \in Contexts, event \in LocalEvents :
        /\ \E l \in ctx[c].listeners : l[1] = event.type
        /\ LET w == handle_event(In(c), event)
           IN  /\ Host(c, w, {})
               /\ syncOp' = SyncStep(c, "signal", event, ~ignores(In(c), event), w)
        /\ UNCHANGED <<now, objVars, hostVars, histVars>>

\* the host delivers a pending notification of a peer's write
SyncDeliver ==
    \E c \in Contexts : \E n \in inbox[c] :
        /\ \E l \in ctx[c].listeners : l[1] = "storage"
        /\ LET event == StorageEvent(n[1])
               w == handle_event(In(c), event)
           IN  /\ Host(c, w, {n})
               /\ syncOp' = SyncStep(c, "storage", event, ~ignores(In(c), event), w)
        /\ UNCHANGED <<now, objVars, hostVars, histVars>>

\* some other script of the origin writes another key of localStorage
SyncForeign ==
    \E c \in Contexts :
        /\ \E l \in ctx[c].listeners : l[1] = "storage"
        /\ LET event == StorageEvent(Str("other"))
               w == handle_event(In(c), event)
           IN  /\ Host(c, w, {})
               /\ syncOp' = SyncStep(c, "foreign", event, ~ignores(In(c), event), w)
        /\ UNCHANGED <<now, objVars, hostVars, histVars>>

SyncFire ==
    \E c \in Contexts : \E tm \in ctx[c].timers :
        /\ tm.at <= now
        /\ LET w == toggle_idle([In(c) EXCEPT !.timers = @ \ {tm}], NoEvent)
           IN  /\ Host(c, w, {})
               /\ syncOp' = SyncStep(c, "fire", NoEvent, TRUE, w)
        /\ UNCHANGED <<now, objVars, hostVars, histVars>>

SyncNext == SyncTick \/ SyncSignal \/ SyncDeliver \/ SyncForeign \/ SyncFire

SyncSpec == SyncInit /\ [][SyncNext]_vars

-----------------------------------------------------------------------------
\* One timer whose owner listens for idle-timer:active on the element and
\* calls reset() from the listener.  dispatchEvent runs the listener before
\* it returns, that is in the middle of __toggle_idle's caller.

toggle_idle_observed(w, event) ==
    LET w1 == toggle_idle(w, event)
    IN  IF is_idle(w1) THEN w1 ELSE reset(w1)

handle_event_observed(w, event) ==
    IF ignores(w, event) THEN w
    ELSE LET w1 == clear(w)
             w2 == IF is_idle(w1) THEN toggle_idle_observed(w1, event) ELSE w1
             w3 == [w2 EXCEPT !.last_activity_at = w.now,
                              !.pageX = event.pageX,
                              !.pageY = event.pageY]
             w4 == sync(w3, event)
         IN  start(w4, Null)

ObservedSignal ==
    \E event \in Events :
        /\ \E l \in listeners : l[1] = event.type
        /\ Commit(handle_event_observed(World, event))
        /\ op' = Step("signal", event, ~ignores(World, event))
        /\ IF ignores(World, event)
           THEN UNCHANGED <<hLast, hExpected, hInactive>>
           ELSE /\ hLast' = Last(IF idle THEN "signal when idle"
                                      ELSE "signal when active")
                /\ hExpected' = {now + timeout}
                /\ hInactive' = 0
        /\ quiet' = FALSE
        /\ hQuietEmitted' = 0
        /\ hAnnounced' = Announce(hAnnounced, emitted')
        /\ hSinceReset' = IF emitted' = <<>> THEN hSinceReset ELSE "none"
        /\ UNCHANGED <<now, destroyed, hPauseElapsed, syncVars>>

ObservedFire ==
    \E tm \in timers :
        /\ tm.at <= now
        /\ Commit(toggle_idle_observed([World EXCEPT !.timers = @ \ {tm}], NoEvent))
        /\ op' = Step("fire", NoEvent, TRUE)
        /\ hLast' = Last("fire")
        /\ hExpected' = {}
        /\ hQuietEmitted' = 0
        /\ hAnnounced' = Announce(hAnnounced, emitted')
        /\ hSinceReset' = IF idle THEN "none" ELSE "idle"
        /\ UNCHANGED <<now, quiet, destroyed, hInactive, hPauseElapsed, syncVars>>

ObservedNext == Tick \/ ObservedSignal \/ ObservedFire

ObservedSpec == Init /\ [][ObservedNext]_vars

-----------------------------------------------------------------------------
\* One timer that is never destroyed, whose environment falls silent: events
\* arrive and reset() is called up to the instant LastCall only; pause() may
\* be called at any time, and after LastCall a paused timer is resumed before
\* the clock moves on.  The clock runs on to MaxTime, which every callback
\* scheduled under these conditions is due by.

LastCall == MaxTime - Timeout

LiveTick ==
    /\ remaining # Null => now < LastCall
    /\ Tick

LiveSignal ==
    /\ now <= LastCall
    /\ Signal

LiveReset ==
    /\ now <= LastCall
    /\ Reset

LiveResume ==
    /\ remaining # Null
    /\ Resume

LiveNext == LiveTick \/ LiveSignal \/ Fire \/ LiveReset \/ Pause \/ LiveResume

\* time passes and a due callback runs however many calls are made at one
\* instant (strong fairness); a paused timer is eventually resumed
LiveSpec ==
    /\ Init
    /\ [][LiveNext]_vars
    /\ SF_vars(LiveTick)
    /\ SF_vars(Fire)
    /\ WF_vars(LiveResume)

(* ------------------------------ claims --------------------------------- *)

\* pendingRemainingMs is non-null
Paused == remaining # Null

IdleNote == [name |-> "idle-timer:idle", timer |-> [idle |-> TRUE], event |-> NoEvent]

ActiveNote(event) ==
    [name |-> "idle-timer:active", timer |-> [idle |-> FALSE], event |-> event]

\* exactly one callback is pending and it is due at instant t
OnePendingAt(ts, t) == \E tm \in ts : ts = {tm} /\ tm.at = t

\* the fields of the timer and its pending callbacks
timerState == <<idle, last_toggled_at, last_activity_at, remaining, pageX, pageY,
                timeout_id, timers>>

\* C1: a timer constructed active at instant 0 that sees no signal and no
\* call is active with nothing emitted before instant timeout, goes idle at
\* instant timeout with exactly one idle-timer:idle, has remaining time 0
\* from then on, has no callback pending afterwards and emits nothing more.
C1_IdleOnceAfterTimeout ==
    (quiet /\ ~initially_idle) =>
        /\ now < timeout => ~idle
        /\ now > timeout => idle
        /\ ~idle => hQuietEmitted = 0 /\ emitted = <<>> /\ OnePendingAt(timers, timeout)
        /\ idle => /\ hQuietEmitted = 1
                   /\ last_toggled_at = timeout
                   /\ get_remaining_time(World) = 0
                   /\ timers = {}
                   /\ emitted = IF op.kind = "fire" THEN <<IdleNote>> ELSE <<>>

C1_Witness ==
    quiet /\ ~initially_idle /\ idle /\ now > timeout /\ hQuietEmitted = 1

\* C2: a key-down, a pointer-down or a storage notification for the timer's
\* key handled while idle and not paused makes the timer active in that
\* step, dispatches exactly one idle-timer:active carrying the signal, and
\* leaves exactly one callback pending, due a full timeout later.
C2_ReactivatedInHandler ==
    [][(/\ idle
        /\ ~Paused
        /\ op'.kind = "signal"
        /\ \/ op'.event.type \in {"keydown", "mousedown"}
           \/ op'.event.type = "storage" /\ op'.event.key = storage_key)
       => /\ ~idle'
          /\ emitted' = <<ActiveNote(op'.event)>>
          /\ OnePendingAt(timers', now + timeout)]_vars

C2_Witness ==
    /\ op.kind = "signal"
    /\ op.event.type = "keydown"
    /\ ~idle
    /\ emitted = <<ActiveNote(op.event)>>

\* C3: a signal accepted at instant t while active and not paused leaves
\* the timer active, dispatches nothing, and leaves exactly one callback
\* pending, due at t + timeout; with no effective step in between, the next
\* callback runs at t + timeout and dispatches idle-timer:idle.
C3_ActivityRestartsCountdown ==
    [][/\ (~idle /\ ~Paused /\ op'.kind = "signal" /\ op'.accepted)
          => /\ ~idle'
             /\ emitted' = <<>>
             /\ last_activity_at' = now
             /\ OnePendingAt(timers', now + timeout)
       /\ (hLast.kind = "signal when active" /\ op'.kind = "fire")
          => /\ now = last_activity_at + timeout
             /\ idle'
             /\ emitted' = <<IdleNote>>]_vars

C3_Witness ==
    /\ op.kind = "fire"
    /\ hLast.before = "signal when active"
    /\ idle
    /\ last_activity_at > 0
    /\ now = last_activity_at + timeout

\* C4: whenever idle-timer:idle is dispatched, at least timeout ticks of
\* unpaused time have passed since the last accepted signal (or since
\* construction or reset).
C4_IdleOnlyAfterFullInactivity ==
    (\E i \in 1..Len(emitted) : emitted[i].name = "idle-timer:idle")
        => hInactive >= timeout

\* C5: while an active timer is paused at elapsed time e < timeout the
\* cached remaining time is timeout - e; resume() then leaves exactly one
\* callback pending, due timeout - e after the resume, and with no effective
\* step in between that callback runs then and dispatches idle-timer:idle.
C5_ResumeSchedulesRemainder ==
    [][/\ (Paused /\ ~idle /\ hPauseElapsed < timeout /\ op'.kind = "resume")
          => /\ remaining = Num(timeout - hPauseElapsed)
             /\ OnePendingAt(timers', now + (timeout - hPauseElapsed))
             /\ remaining' = Null
             /\ ~idle'
             /\ emitted' = <<>>
       /\ (hLast.kind = "resume when active" /\ op'.kind = "fire")
          => /\ hExpected = {now}
             /\ idle'
             /\ emitted' = <<IdleNote>>]_vars

C5_Witness ==
    /\ op.kind = "fire"
    /\ hLast.before = "resume when active"
    /\ idle
    /\ emitted = <<IdleNote>>
    /\ now > timeout

\* C6: once destroy() has returned no listener is registered, no callback
\* is pending and no custom event is dispatched.
C6_DestroyDetaches ==
    destroyed => listeners = {} /\ timers = {} /\ emitted = <<>>

\* C7: reset() leaves idle = initially_idle, both timestamps at the current
\* instant, the timer not paused, nothing dispatched, and exactly one
\* callback pending for the full timeout if the timer is active, none if it
\* is idle.
C7_ResetRestoresInitial ==
    op.kind = "reset" =>
        /\ idle = initially_idle
        /\ last_activity_at = now
        /\ last_toggled_at = now
        /\ remaining = Null
        /\ emitted = <<>>
        /\ IF idle THEN timers = {} ELSE OnePendingAt(timers, now + timeout)

C7_Witness ==
    /\ op.kind = "reset"
    /\ hLast.before = "fire"
    /\ ~initially_idle
    /\ ~idle
    /\ OnePendingAt(timers, now + timeout)

\* C8: a signal handled while paused changes no field of the timer, leaves
\* no callback pending, dispatches nothing and writes nothing to the
\* shared channel.
C8_PausedIgnoresSignals ==
    [][(Paused /\ op'.kind = "signal")
       => /\ UNCHANGED timerState
          /\ timers' = {}
          /\ emitted' = <<>>
          /\ wrote' = <<>>]_vars

C8_Witness ==
    /\ op.kind = "signal"
    /\ op.event.type = "storage"
    /\ op.event.key = storage_key
    /\ Paused
    /\ ~idle

\* C9: pause() on a paused timer changes no field of the timer, whatever
\* time has passed since the first pause().
C9_PauseIdempotent ==
    [][(Paused /\ op'.kind = "pause")
       => /\ UNCHANGED timerState
          /\ emitted' = <<>>
          /\ wrote' = <<>>]_vars

C9_Witness ==
    /\ op.kind = "pause"
    /\ hLast.kind = "pause"
    /\ Paused
    /\ remaining # Num(timeout - (now - last_toggled_at))

\* C10: a mousemove whose coordinates both equal the recorded ones changes
\* no field of the timer, leaves the pending callback as it was, dispatches
\* nothing and writes nothing to the shared channel.
C10_SamePositionIgnored ==
    [][(/\ op'.kind = "signal"
        /\ op'.event.type = "mousemove"
        /\ op'.event.pageX = pageX
        /\ op'.event.pageY = pageY)
       => /\ UNCHANGED timerState
          /\ emitted' = <<>>
          /\ wrote' = <<>>]_vars

C10_Witness ==
    /\ op.kind = "signal"
    /\ op.event.type = "mousemove"
    /\ op.event.pageX = pageX
    /\ op.event.pageY = pageY
    /\ pageX # Undefined
    /\ ~Paused
    /\ ~idle
    /\ now - last_toggled_at >= FalseAlarmTicks
    /\ timers # {}

\* a mousemove with defined coordinates that differ from the recorded ones
MovedTo(event) ==
    /\ event.type = "mousemove"
    /\ event.pageX # Undefined
    /\ event.pageY # Undefined
    /\ (event.pageX # pageX \/ event.pageY # pageY)

\* C11: a mousemove to a new position handled less than 200 ms after the
\* last transition changes nothing and dispatches nothing; handled 200 ms or
\* more after it on a timer that is not paused, it is accepted: it is
\* recorded as activity, the timer is active afterwards and one callback is
\* pending for the full timeout.
C11_MoveInsideWindowIgnored ==
    [][(op'.kind = "signal" /\ MovedTo(op'.event))
       => IF now - last_toggled_at < FalseAlarmTicks
          THEN /\ UNCHANGED timerState
               /\ emitted' = <<>>
               /\ wrote' = <<>>
               /\ ~op'.accepted
          ELSE ~Paused
               => /\ op'.accepted
                  /\ last_activity_at' = now
                  /\ pageX' = op'.event.pageX
                  /\ pageY' = op'.event.pageY
                  /\ ~idle'
                  /\ OnePendingAt(timers', now + timeout)]_vars

C11_Witness ==
    /\ op.kind = "signal"
    /\ MovedTo(op.event)
    /\ hLast.kind = "fire"
    /\ idle
    /\ ~Paused
    /\ now - last_toggled_at < FalseAlarmTicks
    /\ now - last_toggled_at > 0

\* C12: of two unpaused timers sharing a storage key in two contexts, the one
\* that handles local activity writes its new last_activity_at under the key
\* exactly once (and the host notifies the peer of a changed value); the peer
\* handles the notification as activity (full countdown, active notification
\* if it was idle) and writes nothing, so nothing echoes; a notification for
\* another key changes nothing.
C12_SyncWithoutEcho ==
    [][LET c == syncOp'.ctx
           e == syncOp'.event
           others == Contexts \ {c}
       IN  /\ (syncOp'.kind = "signal" /\ syncOp'.accepted)
              => /\ ctx'[c].last_activity_at = now
                 /\ syncOp'.wrote = <<[key |-> SyncKey, value |-> now]>>
                 /\ channel' = Num(now)
                 /\ \A d \in others :
                        /\ ctx'[d] = ctx[d]
                        /\ channel # Num(now) => <<SyncKey, Num(now)>> \in inbox'[d]
           /\ (syncOp'.kind = "signal" /\ ~syncOp'.accepted)
              => /\ syncOp'.wrote = <<>>
                 /\ UNCHANGED <<ctx, channel, inbox>>
           /\ syncOp'.kind = "storage"
              => /\ syncOp'.accepted
                 /\ syncOp'.wrote = <<>>
                 /\ channel' = channel
                 /\ \A d \in others : inbox'[d] = inbox[d] /\ ctx'[d] = ctx[d]
                 /\ ~ctx'[c].idle
                 /\ ctx'[c].last_activity_at = now
                 /\ OnePendingAt(ctx'[c].timers, now + ctx[c].timeout)
                 /\ syncOp'.emitted = IF ctx[c].idle THEN <<ActiveNote(e)>> ELSE <<>>
           /\ syncOp'.kind = "foreign"
              => /\ ~syncOp'.accepted
                 /\ syncOp'.emitted = <<>>
                 /\ syncOp'.wrote = <<>>
                 /\ UNCHANGED <<ctx, channel, inbox>>]_vars

\* a peer that had gone idle is reactivated by the notification of a write
C12_Witness ==
    /\ syncOp.kind = "storage"
    /\ syncOp.emitted = <<ActiveNote(syncOp.event)>>
    /\ now > Timeout
    /\ channel = Num(now)
    /\ \A c \in Contexts : ~ctx[c].idle /\ OnePendingAt(ctx[c].timers, now + Timeout)

\* what an observer that heard `known` last takes the state to be
Heard(known) == IF known = "none" THEN initially_idle ELSE known = "idle"

\* C13 (as stated): is_idle() is what the most recent notification announced,
\* or initially_idle if there has been none since construction.
C13_IdleIsLastAnnounced == is_idle(World) = Heard(hAnnounced)

\* C13 (amended): is_idle() is what the most recent notification since
\* construction or the last reset() announced, or initially_idle if there has
\* been none; and between two resets the notifications alternate.
C13_IdleIsLastAnnouncedSinceReset ==
    /\ is_idle(World) = Heard(hSinceReset)
    /\ emitted # <<>> => /\ Len(emitted) = 1
                         /\ emitted[1].timer.idle = idle
                         /\ op.kind \in {"signal", "fire", "resume"}

\* reset() has silently returned an idle timer to the active state, after
\* which the timer went idle again: two idle notifications in a row
C13_Witness ==
    /\ hLast = [kind |-> "fire", before |-> "reset"]
    /\ hAnnounced = "idle"
    /\ hSinceReset = "idle"
    /\ ~initially_idle
    /\ idle
    /\ now > Timeout

\* C14: while the timer is active and not paused, get_remaining_time() is the
\* time left until the pending callback of __start runs.
C14_RemainingIsTimeToIdle ==
    (~idle /\ ~Paused /\ ~destroyed)
    => \E tm \in timers : timers = {tm} /\ get_remaining_time(World) = tm.at - now

\* C15: an idle notification carries no event and a timer with idle = true;
\* an active notification carries the accepted event whose handling
\* reactivated the timer and a timer with idle = false; a callback of __start
\* produces the idle notification only.
C15_PayloadMatchesCause ==
    /\ \A i \in 1..Len(emitted) :
           IF emitted[i].name = "idle-timer:idle"
           THEN emitted[i] = IdleNote
           ELSE /\ emitted[i].name = "idle-timer:active"
                /\ op.kind = "signal"
                /\ op.accepted
                /\ op.event # NoEvent
                /\ emitted[i] = ActiveNote(op.event)
    /\ op.kind = "fire" => emitted = <<IdleNote>>

\* an idle timer reactivated by a storage event announces that very event
C15_Witness ==
    /\ op.kind = "signal"
    /\ op.event.type = "storage"
    /\ emitted = <<ActiveNote(op.event)>>
    /\ hAnnounced = "active"
    /\ now > 0

\* C16: at most one callback of __start is pending in any reachable state,
\* and a step that schedules one leaves it as the only one.
C16_AtMostOnePending ==
    /\ Cardinality(timers) <= 1
    /\ Truthy(timeout_id) /\ timers # {} => \A tm \in timers : Num(tm.id) = timeout_id

\* activity while a callback was pending: rescheduled, still one
C16_Witness ==
    /\ op.kind = "signal"
    /\ op.accepted
    /\ hLast.kind = "signal when active"
    /\ now > 0
    /\ OnePendingAt(timers, now + timeout)
    /\ hAnnounced = "none"

PendingOnlyWhenRunning == timers # {} => ~idle /\ ~Paused

\* C17: a callback of __start is pending only while the timer is active and
\* not paused; so a callback runs in the active unpaused state and makes the
\* timer idle, and while the timer is paused (until resume() or reset()) idle
\* does not change and nothing is dispatched.
C17_PendingOnlyWhenRunning ==
    [][/\ PendingOnlyWhenRunning
       /\ PendingOnlyWhenRunning'
       /\ op'.kind = "fire"
          => ~idle /\ ~Paused /\ idle' /\ emitted' = <<IdleNote>>
       /\ (Paused /\ op'.kind # "reset")
          => idle' = idle /\ emitted' = <<>> /\ timers = {}]_vars

\* resume() of a timer that was paused while idle schedules nothing
C17_Witness ==
    /\ op.kind = "resume"
    /\ hLast.kind = "resume when idle"
    /\ idle
    /\ ~Paused
    /\ timers = {}
    /\ emitted = <<>>
    /\ hAnnounced = "idle"

Pointer(event) == event.type \in {"mousemove", "mousedown"}

\* C18: pageX/pageY hold the coordinates of the most recently accepted
\* pointer event: an accepted pointer event records its coordinates, and no
\* other step (an accepted keydown or storage event among them) changes
\* coordinates that have been recorded.
C18_CoordinatesOfLastPointer ==
    [][IF op'.kind = "signal" /\ op'.accepted /\ Pointer(op'.event)
       THEN pageX' = op'.event.pageX /\ pageY' = op'.event.pageY
       ELSE (pageX \notin {Null, Undefined} /\ pageY \notin {Null, Undefined})
            => UNCHANGED <<pageX, pageY>>]_vars

\* C19: in every reachable state, paused or not, get_remaining_time() is
\* at least 0 and at most timeout.
C19_RemainingWithinTimeout ==
    /\ 0 <= get_remaining_time(World)
    /\ get_remaining_time(World) <= timeout

\* C20: with a clock that never goes back, between handling steps an active
\* timer has last_activity_at >= last_toggled_at, an idle timer has
\* last_toggled_at >= last_activity_at, and neither is later than now.
C20_TimestampsOrdered ==
    /\ ~idle => last_activity_at >= last_toggled_at
    /\ idle => last_toggled_at >= last_activity_at
    /\ last_activity_at <= now
    /\ last_toggled_at <= now

\* a timer that went idle and was reactivated sees more activity later:
\* all three instants differ
C20_Witness ==
    /\ ~idle
    /\ op.kind = "signal"
    /\ op.accepted
    /\ last_activity_at > last_toggled_at
    /\ last_toggled_at > Timeout
    /\ hSinceReset = "active"

\* C21: when the listener of idle-timer:active calls reset() while the event
\* that reactivated the timer is still being handled, at most one callback
\* of __start is pending once the handling is over, and none is pending
\* while the timer is idle; so no callback finds the timer idle and makes
\* it active with no activity.
C21_ReentrantResetKeepsOnePending ==
    [][/\ op'.kind = "signal"
          => /\ Cardinality(timers') <= 1
             /\ idle' => timers' = {}
       /\ op'.kind = "fire" => ~idle /\ idle']_vars

====
